---- MODULE Spec2Model ----
(***************************************************************************)
(* A model of main.py: the five-minute view tracker.  One process polls    *)
(* the upstream API (discover_videos, fetch_current_views), appends to     *)
(* videos.csv (save_videos_csv), rewrites allvideoviews.csv and            *)
(* sumtotal.txt (update_allvideoviews), sleeps, and repeats until a        *)
(* KeyboardInterrupt, on which it launches the dashboard                   *)
(* (start_server_and_open_browser).                                        *)
(*                                                                         *)
(* A file is what is on disk plus what the open handle has buffered: the   *)
(* `with` blocks close (and so flush) the handle on every exit, normal or  *)
(* by exception, and nothing else reads the files while a handle is open.  *)
(* A KeyboardInterrupt is raised between two bytecodes of the main thread, *)
(* so it can land between any two of the steps below; steps that touch no  *)
(* file are folded into the next step that does.                           *)
(*                                                                         *)
(* videos.csv rows carry video_id only: title and published_at are written *)
(* verbatim and never read back by the program.                            *)
(***************************************************************************)
EXTENDS Integers, Sequences, FiniteSets, TLC

\* ------------------------------------------------------------------ bounds
MaxViews == 1
MaxVideos == 2
MaxBatch == 2
MaxMeasured == 4
MaxRuns == 2
LoopRuns == 1

\* The per-request cap of ids in fetch_current_views (range(0, len, 50)).
ChunkSize == 50
\* maxResults of playlistItems().list.
PageSize == 50

VideoIds == {"A", "B"}

\* ------------------------------------------------------------ text <-> int
DigitChars == <<"0", "1", "2", "3", "4", "5", "6", "7", "8", "9">>
DigitSet == {DigitChars[i] : i \in 1..10}
Whitespace == {" ", "\n"}

DigitVal(c) == (CHOOSE i \in 1..10 : DigitChars[i] = c) - 1

max(a, b) == IF a >= b THEN a ELSE b

min(a, b) == IF a <= b THEN a ELSE b

RECURSIVE PosStr(_)
PosStr(n) ==
    IF n < 10 THEN <<DigitChars[n + 1]>>
    ELSE Append(PosStr(n \div 10), DigitChars[(n % 10) + 1])

\* Python str() of an int.
str(n) == IF n < 0 THEN <<"-">> \o PosStr(-n) ELSE PosStr(n)

RECURSIVE lstrip(_)
lstrip(s) ==
    IF s # <<>> /\ Head(s) \in Whitespace THEN lstrip(Tail(s)) ELSE s

RECURSIVE rstrip(_)
rstrip(s) ==
    IF s # <<>> /\ s[Len(s)] \in Whitespace
    THEN rstrip(SubSeq(s, 1, Len(s) - 1)) ELSE s

\* Python str.strip().
strip(s) == rstrip(lstrip(s))

RECURSIVE DigitsValue(_, _)
DigitsValue(s, acc) ==
    IF s = <<>> THEN acc
    ELSE IF Head(s) = "_" THEN DigitsValue(Tail(s), acc)
    ELSE DigitsValue(Tail(s), 10 * acc + DigitVal(Head(s)))

\* The digit part of an integer literal: digits, single underscores between.
ValidDigits(s) ==
    /\ s # <<>>
    /\ \A i \in 1..Len(s) : s[i] \in DigitSet \cup {"_"}
    /\ s[1] \in DigitSet
    /\ s[Len(s)] \in DigitSet
    /\ \A i \in 1..(Len(s) - 1) : ~(s[i] = "_" /\ s[i + 1] = "_")

\* Python int() of a str: [ok |-> FALSE] stands for ValueError.
int(s) ==
    LET t == strip(s)
        signed == t # <<>> /\ Head(t) \in {"+", "-"}
        body == IF signed THEN Tail(t) ELSE t
        mag == DigitsValue(body, 0)
    IN  IF ValidDigits(body)
        THEN [ok |-> TRUE, val |-> IF signed /\ Head(t) = "-" THEN -mag ELSE mag]
        ELSE [ok |-> FALSE, val |-> 0]

\* ------------------------------------------------------------------- files
NoFile == [exists |-> FALSE, header |-> FALSE, rows |-> <<>>]
EmptyFile == [exists |-> TRUE, header |-> FALSE, rows |-> <<>>]

NoText == [exists |-> FALSE, text |-> <<>>]

\* csv.DictReader: the first line names the fields, the rest are the rows.
DictReader(f) ==
    IF f.header THEN f.rows
    ELSE IF f.rows = <<>> THEN <<>> ELSE Tail(f.rows)

\* os.stat(path).st_size == 0
SizeIsZero(f) == ~f.header /\ f.rows = <<>>

Range(s) == {s[i] : i \in 1..Len(s)}

SeqsUpTo(S, n) == UNION {[1..k -> S] : k \in 0..n}

\* --------------------------------------------------------------- variables
VARIABLES
    pc,                \* where the process is
    cause,             \* why the loop ended: "none", "interrupt", "failure", "error"
    clock,             \* datetime.now(), as the count of the calls that read it
    videos_csv,        \* VIDEOS_CSV
    all_views_csv,     \* ALL_VIEWS_CSV
    sumtotal_txt,      \* SUMTOTAL_TXT
    videos,            \* discover_videos: the list built so far
    existing_ids,      \* save_videos_csv: ids read from VIDEOS_CSV
    idx,               \* the position of the loop in progress
    all_stats,         \* fetch_current_views: the list built so far
    api_callout,       \* the batch handed to update_allvideoviews
    existing,          \* update_allvideoviews: the dict, in insertion order
    cumulative_total,  \* update_allvideoviews
    total_new_views,   \* update_allvideoviews
    hook_runs,         \* calls of start_server_and_open_browser by this process
    hist               \* history: what the claims compare the program against

vars == <<pc, cause, clock, videos_csv, all_views_csv, sumtotal_txt, videos,
          existing_ids, idx, all_stats, api_callout, existing,
          cumulative_total, total_new_views, hook_runs, hist>>

files == <<videos_csv, all_views_csv, sumtotal_txt>>
locals == <<videos, existing_ids, idx, all_stats, api_callout, existing,
            cumulative_total, total_new_views>>

\* ------------------------------------------------------------ the upstream
\* A page of playlistItems().list: at most PageSize entries, and no more than
\* the bound on the length of one listing leaves room for.
Pages(room) == SeqsUpTo(VideoIds, min(PageSize, room))

\* The viewCount field of a statistics resource: a decimal string, or absent.
ViewCounts ==
    {[present |-> TRUE, text |-> str(v)] : v \in 0..MaxViews}
        \cup {[present |-> FALSE, text |-> <<>>]}

Injective(s) == \A i, j \in 1..Len(s) : s[i].id = s[j].id => i = j

\* What videos().list(id=chunk) may answer: resources of ids it was asked
\* for, each at most once, in any order; an id it no longer knows is absent.
Responses(chunk) ==
    {r \in SeqsUpTo([id : Range(chunk), viewCount : ViewCounts], Len(chunk)) :
        Injective(r)}

\* Any list of measurements a caller may hand to update_allvideoviews.
Batches ==
    SeqsUpTo([video_id : VideoIds, current_views : 0..MaxViews], MaxBatch)

\* What SUMTOTAL_TXT may hold when the program is first started on a
\* directory it did not create: nothing, an integer, or something else.
BadTotals ==
    {NoText}
        \cup {[exists |-> TRUE, text |-> t] :
                t \in {<<>>, <<"x">>, <<"1", "x">>, <<"1", ".", "5">>, <<"-">>,
                       <<" ">>, <<"1", " ", "2">>}}

GoodTotals ==
    {[exists |-> TRUE, text |-> t] :
        t \in {<<"7">>, <<" ", "3", "\n">>, <<"1", "_", "2">>}}

InitTotals == BadTotals \cup GoodTotals

\* ------------------------------------------------------------------ history
\* hist records what the program itself does not keep:
\*   pre_views, pre_total  the two files as the iteration in progress found them
\*   hi_total              the largest total a completed write has persisted
\*   stranded              a run that found new views was abandoned between
\*                         its two writes
\*   in_order              the calls of update_allvideoviews so far began
\*                         with neither file and have all returned
\*   ledger                id -> last count seen (-1: never), kept apart from
\*                         the files
\*   owed                  the sum of the per-measurement increases so far
\*   measured              the measurements handed over so far, all calls
\*   again                 the call in progress was handed the batch of the
\*                         call that returned just before it
\*   total_was, views_was  what that call left, when again
Unseen == [v \in VideoIds |-> -1]

InitHist ==
    [pre_views |-> NoFile, pre_total |-> NoText, hi_total |-> 0,
     stranded |-> FALSE, in_order |-> TRUE, ledger |-> Unseen, owed |-> 0,
     measured |-> 0, again |-> FALSE, total_was |-> 0, views_was |-> Unseen]

\* ---------------------------------------------------------------- the state
InitLocals ==
    /\ videos = <<>>
    /\ existing_ids = {}
    /\ idx = 0
    /\ all_stats = <<>>
    /\ api_callout = <<>>
    /\ existing = <<>>
    /\ cumulative_total = 0
    /\ total_new_views = 0

ClearLocals ==
    /\ videos' = <<>>
    /\ existing_ids' = {}
    /\ idx' = 0
    /\ all_stats' = <<>>
    /\ api_callout' = <<>>
    /\ existing' = <<>>
    /\ cumulative_total' = 0
    /\ total_new_views' = 0

\* The program is started in a directory with none of its files, and enters
\* the try block (line 200).
Init ==
    /\ pc = "loop"
    /\ cause = "none"
    /\ clock = 0
    /\ videos_csv = NoFile
    /\ all_views_csv = NoFile
    /\ sumtotal_txt = NoText
    /\ InitLocals
    /\ hook_runs = 0
    /\ hist = InitHist

\* The steps of the try block (lines 200-219): RUNNING.
RunningPcs ==
    {"loop", "discover", "page", "save_open", "save_header", "save_rows",
     "fetch", "update", "upd_rows", "upd_open_total", "upd_write_total",
     "sleep"}

\* The steps that ask the upstream API.
RequestPcs == {"discover", "page", "fetch"}

\* ------------------------------------------------------------- the loop
\* Lines 201-206: one more turn of `while True`.
IterStart ==
    /\ pc = "loop"
    /\ clock <= LoopRuns
    /\ pc' = "discover"
    /\ UNCHANGED <<cause, clock, files, locals, hook_runs, hist>>

\* ---------------------------------------------------------- discover_videos
\* get_uploads_playlist_id answered (lines 26-32, 37-39).
GetUploads ==
    /\ pc = "discover"
    /\ pc' = "page"
    /\ videos' = <<>>
    /\ UNCHANGED <<cause, clock, files, existing_ids, idx, all_stats,
                   api_callout, existing, cumulative_total, total_new_views,
                   hook_runs, hist>>

\* One playlistItems().list page answered (lines 41-61).
DiscoverPage ==
    /\ pc = "page"
    /\ \E items \in Pages(MaxVideos - Len(videos)), next_page \in BOOLEAN :
        /\ videos' = videos \o items
        /\ pc' = IF next_page THEN "page" ELSE "save_open"
    /\ UNCHANGED <<cause, clock, files, existing_ids, idx, all_stats,
                   api_callout, existing, cumulative_total, total_new_views,
                   hook_runs, hist>>

\* ---------------------------------------------------------- save_videos_csv
\* Lines 66-70: the ids the file holds.
KnownIds(f) ==
    IF f.exists THEN {r.video_id : r \in Range(DictReader(f))} ELSE {}

\* Lines 66-73: the known ids are read, then the file is opened for append
\* (which creates it when it is missing).
SaveOpen ==
    /\ pc = "save_open"
    /\ existing_ids' = KnownIds(videos_csv)
    /\ videos_csv' = IF videos_csv.exists THEN videos_csv ELSE EmptyFile
    /\ pc' = "save_header"
    /\ UNCHANGED <<cause, clock, all_views_csv, sumtotal_txt, videos, idx,
                   all_stats, api_callout, existing, cumulative_total,
                   total_new_views, hook_runs, hist>>

\* Lines 74-75.
SaveHeader ==
    /\ pc = "save_header"
    /\ videos_csv' =
           IF SizeIsZero(videos_csv)
           THEN [videos_csv EXCEPT !.header = TRUE]
           ELSE videos_csv
    /\ idx' = 1
    /\ pc' = "save_rows"
    /\ UNCHANGED <<cause, clock, all_views_csv, sumtotal_txt, videos,
                   existing_ids, all_stats, api_callout, existing,
                   cumulative_total, total_new_views, hook_runs, hist>>

\* The test of line 77 the wrong way round.
CatalogAppend_Inverted(f, v, known) ==
    IF v \in known
    THEN [f EXCEPT !.rows = Append(@, [video_id |-> v])]
    ELSE f

\* Lines 77-78: the row of one video, unless its id was in the file.
CatalogAppend(f, v, known) ==
    IF v \notin known
    THEN [f EXCEPT !.rows = Append(@, [video_id |-> v])]
    ELSE f

\* Lines 76-78: one turn of `for v in videos`.
SaveRow ==
    /\ pc = "save_rows"
    /\ idx <= Len(videos)
    /\ videos_csv' = CatalogAppend(videos_csv, videos[idx], existing_ids)
    /\ idx' = idx + 1
    /\ UNCHANGED <<pc, cause, clock, all_views_csv, sumtotal_txt, videos,
                   existing_ids, all_stats, api_callout, existing,
                   cumulative_total, total_new_views, hook_runs, hist>>

\* The loop is over and the file closed; line 210 and lines 83-84.  With no
\* video there is no chunk to ask for, and fetch_current_views returns [].
SaveDone ==
    /\ pc = "save_rows"
    /\ idx > Len(videos)
    /\ videos = <<>> => clock < LoopRuns
    /\ idx' = 0
    /\ all_stats' = <<>>
    /\ api_callout' = <<>>
    /\ existing_ids' = {}
    /\ pc' = IF videos = <<>> THEN "update" ELSE "fetch"
    /\ UNCHANGED <<cause, clock, files, videos, existing, cumulative_total,
                   total_new_views, hook_runs, hist>>

\* ------------------------------------------------------ fetch_current_views
\* Line 93: int(item["statistics"].get("viewCount", 0)).
ViewCountOf(vc) == IF vc.present THEN int(vc.text).val ELSE 0

\* Lines 90-94.
Stats(resp) ==
    [i \in 1..Len(resp) |->
        [video_id |-> resp[i].id, current_views |-> ViewCountOf(resp[i].viewCount)]]

\* Lines 84-95 and 212: one chunk asked and answered; idx is the `i` of the
\* loop.  After the last chunk the list is returned.
FetchChunk ==
    /\ pc = "fetch"
    /\ idx < Len(videos)
    /\ clock < LoopRuns
    /\ LET chunk == SubSeq(videos, idx + 1, min(idx + ChunkSize, Len(videos)))
           last == idx + ChunkSize >= Len(videos)
       IN  \E resp \in Responses(chunk) :
               /\ all_stats' = IF last THEN <<>> ELSE all_stats \o Stats(resp)
               /\ api_callout' = IF last THEN all_stats \o Stats(resp) ELSE <<>>
               /\ idx' = IF last THEN 0 ELSE idx + ChunkSize
               /\ videos' = IF last THEN <<>> ELSE videos
               /\ pc' = IF last THEN "update" ELSE "fetch"
    /\ UNCHANGED <<cause, clock, files, existing_ids, existing,
                   cumulative_total, total_new_views, hook_runs, hist>>

\* ----------------------------------------------------- update_allvideoviews
\* Lines 108-115: the rows of ALL_VIEWS_CSV, last_views through int().
LoadExisting(f) ==
    LET rows == IF f.exists THEN DictReader(f) ELSE <<>>
    IN  [i \in 1..Len(rows) |->
            [video_id |-> rows[i].video_id,
             last_views |-> int(rows[i].last_views).val,
             last_checked |-> rows[i].last_checked]]

\* int(row["last_views"]) is outside any try: a row that does not parse raises.
LoadRaises(f) ==
    /\ f.exists
    /\ \E r \in Range(DictReader(f)) : ~int(r.last_views).ok

\* The value of the leading digits of a text, as a lenient parser reads it.
RECURSIVE LeadingDigits(_, _)
LeadingDigits(s, acc) ==
    IF s = <<>> \/ Head(s) \notin DigitSet THEN acc
    ELSE LeadingDigits(Tail(s), 10 * acc + DigitVal(Head(s)))

\* Lines 118-124 with a parser that stops at the first character it cannot
\* read instead of raising.
LoadTotal_Lenient(t) == IF t.exists THEN LeadingDigits(strip(t.text), 0) ELSE 0

\* Lines 118-124.
LoadTotal(t) ==
    IF t.exists /\ int(strip(t.text)).ok THEN int(strip(t.text)).val ELSE 0

\* existing[vid], as a position in the insertion order; 0 when vid is no key.
KeyIndex(ex, vid) ==
    IF \E i \in 1..Len(ex) : ex[i].video_id = vid
    THEN CHOOSE i \in 1..Len(ex) : ex[i].video_id = vid
    ELSE 0

\* Lines 132-136 without the max(0, ...) of line 133.
Delta_NoClamp(ex, vid, current_views) ==
    IF KeyIndex(ex, vid) # 0
    THEN current_views - ex[KeyIndex(ex, vid)].last_views
    ELSE current_views

\* Lines 132-136 with every video taken as new (line 136 alone).
Delta_AlwaysNew(ex, vid, current_views) == current_views

\* Lines 132-136.
Delta(ex, vid, current_views) ==
    IF KeyIndex(ex, vid) # 0
    THEN max(0, current_views - ex[KeyIndex(ex, vid)].last_views)
    ELSE current_views

\* Lines 142-145: a key that is there keeps its place, a new one goes last.
Upsert(ex, vid, current_views, now) ==
    LET entry == [video_id |-> vid, last_views |-> current_views,
                  last_checked |-> now]
    IN  IF KeyIndex(ex, vid) # 0
        THEN [ex EXCEPT ![KeyIndex(ex, vid)] = entry]
        ELSE Append(ex, entry)

\* Lines 126-145: `for video in api_callout`, from position i on.
RECURSIVE Fold(_, _, _, _)
Fold(st, batch, i, now) ==
    IF i > Len(batch) THEN st
    ELSE LET vid == batch[i].video_id
             current_views == batch[i].current_views
             delta == Delta(st.existing, vid, current_views)
         IN  Fold([existing |-> Upsert(st.existing, vid, current_views, now),
                   total_new_views |-> st.total_new_views + delta,
                   cumulative_total |-> st.cumulative_total + delta],
                  batch, i + 1, now)

\* The two writes the other way round: the total, then the table.
WriteOrder_TotalFirst == <<"total", "views">>

\* The two writes in the order the function makes them: the table (lines
\* 147-156), then the total (lines 158-160).
WriteOrder == <<"views", "total">>

OpenPc(w) == IF w = "views" THEN "upd_open_views" ELSE "upd_open_total"

\* Where the function goes when write w is done: on to the other write, or
\* out of the function to the loop's time.sleep(300) (lines 162-163, 218-219).
AfterWrite(w) == IF WriteOrder[1] = w THEN OpenPc(WriteOrder[2]) ELSE "sleep"

\* Lines 104-145: both files are read and the batch is folded in.
UpdLoad ==
    /\ pc = "update"
    /\ clock' = clock + 1
    /\ IF LoadRaises(all_views_csv)
       THEN /\ pc' = "crashed"
            /\ cause' = "error"
            /\ ClearLocals
       ELSE LET st == Fold([existing |-> LoadExisting(all_views_csv),
                            total_new_views |-> 0,
                            cumulative_total |-> LoadTotal(sumtotal_txt)],
                           api_callout, 1, clock + 1)
            IN  /\ existing' = st.existing
                /\ total_new_views' = st.total_new_views
                /\ cumulative_total' = st.cumulative_total
                /\ pc' = OpenPc(WriteOrder[1])
                /\ UNCHANGED <<cause, videos, existing_ids, idx, all_stats,
                               api_callout>>
    /\ UNCHANGED <<files, hook_runs, hist>>

\* Lines 152-156: the row written for one entry of the dict.
ViewsRow(e) ==
    [video_id |-> e.video_id, last_views |-> str(e.last_views),
     last_checked |-> e.last_checked]

\* Line 151 writing only the entries this call has upserted.
RowsToWrite_Touched(ex) ==
    SelectSeq(ex, LAMBDA e : \E i \in 1..Len(api_callout) :
                                 api_callout[i].video_id = e.video_id)

\* Line 151: what is written is every entry of the dict.
RowsToWrite(ex) == ex

\* Lines 148-150: open(ALL_VIEWS_CSV, "w") truncates the table, or creates
\* it, and the header is written.
UpdOpenViews ==
    /\ pc = "upd_open_views"
    /\ all_views_csv' = [EmptyFile EXCEPT !.header = TRUE]
    /\ idx' = 1
    /\ pc' = IF RowsToWrite(existing) = <<>> THEN AfterWrite("views") ELSE "upd_rows"
    /\ UNCHANGED <<cause, clock, videos_csv, sumtotal_txt, videos,
                   existing_ids, all_stats, api_callout, existing,
                   cumulative_total, total_new_views, hook_runs, hist>>

\* Lines 151-156: one turn of `for vid, data in existing.items()`.
UpdWriteRow ==
    /\ pc = "upd_rows"
    /\ idx <= Len(RowsToWrite(existing))
    /\ all_views_csv' =
           [all_views_csv EXCEPT !.rows = Append(@, ViewsRow(RowsToWrite(existing)[idx]))]
    /\ idx' = idx + 1
    /\ pc' = IF idx = Len(RowsToWrite(existing)) THEN AfterWrite("views") ELSE "upd_rows"
    /\ UNCHANGED <<cause, clock, videos_csv, sumtotal_txt, videos,
                   existing_ids, all_stats, api_callout, existing,
                   cumulative_total, total_new_views, hook_runs, hist>>

\* Line 159: open(SUMTOTAL_TXT, "w") truncates the file, or creates it.
UpdOpenTotal ==
    /\ pc = "upd_open_total"
    /\ sumtotal_txt' = [exists |-> TRUE, text |-> <<>>]
    /\ pc' = "upd_write_total"
    /\ UNCHANGED <<cause, clock, videos_csv, all_views_csv, locals, hook_runs,
                   hist>>

\* Line 160; then the handle is closed.
UpdWriteTotal ==
    /\ pc = "upd_write_total"
    /\ sumtotal_txt' = [sumtotal_txt EXCEPT !.text = str(cumulative_total)]
    /\ pc' = AfterWrite("total")
    /\ hist' = [hist EXCEPT !.hi_total = max(@, LoadTotal(sumtotal_txt'))]
    /\ UNCHANGED <<cause, clock, videos_csv, all_views_csv, locals, hook_runs>>

\* Lines 207-212 have run and handed over a batch: the ids of one listing,
\* each measured at most once.
Callouts == {b \in Batches : \A i, j \in 1..Len(b) : b[i].video_id = b[j].video_id => i = j}

Callout ==
    /\ pc = "loop"
    /\ clock < MaxRuns
    /\ \E batch \in Callouts : api_callout' = batch
    /\ pc' = "update"
    /\ UNCHANGED <<cause, clock, files, videos, existing_ids, idx, all_stats,
                   existing, cumulative_total, total_new_views, hook_runs,
                   hist>>

\* The increase the ledger sees in one measurement: max(0, current - previous),
\* previous being 0 for an id the ledger has not seen.
Increase(ledger, m) ==
    max(0, m.current_views - (IF ledger[m.video_id] < 0 THEN 0 ELSE ledger[m.video_id]))

\* The ledger after the measurements of a batch from position i on.
RECURSIVE Seen(_, _, _)
Seen(ledger, batch, i) ==
    IF i > Len(batch) THEN ledger
    ELSE Seen([ledger EXCEPT ![batch[i].video_id] = batch[i].current_views],
              batch, i + 1)

\* The sum of the increases of a batch from position i on.
RECURSIVE Owed(_, _, _)
Owed(ledger, batch, i) ==
    IF i > Len(batch) THEN 0
    ELSE Increase(ledger, batch[i])
         + Owed(Seen(ledger, <<batch[i]>>, 1), batch, i + 1)

\* The last_views column of a table, by id; -1 for an id with no row.
LastViews(f) ==
    [v \in VideoIds |->
        LET ex == LoadExisting(f)
        IN  IF KeyIndex(ex, v) # 0 THEN ex[KeyIndex(ex, v)].last_views ELSE -1]

\* update_allvideoviews is called with a batch, for the first time or after
\* the call before it has returned.
RecCall ==
    /\ pc \in {"loop", "sleep"}
    /\ clock < MaxRuns
    /\ \E batch \in Batches :
        /\ hist.measured + Len(batch) <= MaxMeasured
        /\ api_callout' = batch
        /\ LET again == pc = "sleep" /\ batch = api_callout
           IN  hist' = [hist EXCEPT
                   !.pre_views = all_views_csv,
                   !.pre_total = sumtotal_txt,
                   !.ledger = IF hist.in_order THEN Seen(@, batch, 1) ELSE @,
                   !.owed = IF hist.in_order THEN @ + Owed(hist.ledger, batch, 1) ELSE @,
                   !.measured = @ + Len(batch),
                   !.again = again,
                   !.total_was = IF again THEN LoadTotal(sumtotal_txt) ELSE 0,
                   !.views_was = IF again THEN LastViews(all_views_csv) ELSE Unseen]
    /\ existing' = <<>>
    /\ cumulative_total' = 0
    /\ total_new_views' = 0
    /\ pc' = "update"
    /\ UNCHANGED <<cause, clock, files, videos, existing_ids, idx, all_stats,
                   hook_runs>>

\* Line 219 is over: back to line 201.
Sleep ==
    /\ pc = "sleep"
    /\ pc' = "loop"
    /\ ClearLocals
    /\ hist' = [hist EXCEPT !.pre_views = all_views_csv,
                            !.pre_total = sumtotal_txt]
    /\ UNCHANGED <<cause, clock, files, hook_runs>>

\* ------------------------------------------------------- how the loop ends
\* The first write of update_allvideoviews is done and the second not begun.
BetweenWrites == pc = OpenPc(WriteOrder[2])

\* Lines 221-223: KeyboardInterrupt lands somewhere in the try block; every
\* `with` block on the way out closes its file.
Interrupt ==
    /\ pc \in RunningPcs \cup {"upd_open_views"}
    /\ pc' = "stopping"
    /\ cause' = "interrupt"
    /\ ClearLocals
    /\ hist' = [hist EXCEPT
                   !.pre_views = all_views_csv,
                   !.pre_total = sumtotal_txt,
                   !.stranded = @ \/ (BetweenWrites /\ total_new_views > 0)]
    /\ UNCHANGED <<clock, files, hook_runs>>

\* The failure of a request caught by the handler of line 221, as a bare
\* `except:` would.
Fail_Caught ==
    /\ pc \in RequestPcs
    /\ pc' = "stopping"
    /\ cause' = "failure"
    /\ ClearLocals
    /\ UNCHANGED <<clock, files, hook_runs, hist>>

\* The failure of a request swallowed and the request made again.
Fail_Retried ==
    /\ pc \in RequestPcs
    /\ cause' = "failure"
    /\ UNCHANGED <<pc, clock, files, locals, hook_runs, hist>>

\* A request's execute() raises: nothing catches it (the handler at line 221
\* takes KeyboardInterrupt only) and the process ends.
Fail ==
    /\ pc \in RequestPcs
    /\ pc' = "crashed"
    /\ cause' = "failure"
    /\ ClearLocals
    /\ UNCHANGED <<clock, files, hook_runs, hist>>

\* Lines 226-228 and 166-179: the handler calls the hook; the script finishes.
start_server_and_open_browser ==
    /\ pc = "stopping"
    /\ hook_runs' = hook_runs + 1
    /\ pc' = "exited"
    /\ UNCHANGED <<cause, clock, files, locals, hist>>

\* A second KeyboardInterrupt, in the handler before it calls the hook (lines
\* 222-223): nothing catches it.
InterruptAgain ==
    /\ pc = "stopping"
    /\ pc' = "crashed"
    /\ UNCHANGED <<cause, clock, files, locals, hook_runs, hist>>

\* The operator starts the program again: a new process, the same files.
Restart ==
    /\ pc \in {"exited", "crashed"}
    /\ pc' = "loop"
    /\ cause' = "none"
    /\ hook_runs' = 0
    /\ UNCHANGED <<clock, files, locals, hist>>

Next ==
    \/ IterStart
    \/ GetUploads
    \/ DiscoverPage
    \/ SaveOpen
    \/ SaveHeader
    \/ SaveRow
    \/ SaveDone
    \/ FetchChunk
    \/ UpdLoad
    \/ UpdOpenViews
    \/ UpdWriteRow
    \/ UpdOpenTotal
    \/ UpdWriteTotal
    \/ Sleep
    \/ Interrupt
    \/ Fail
    \/ start_server_and_open_browser
    \/ InterruptAgain
    \/ Restart

Spec == Init /\ [][Next]_vars

\* update_allvideoviews and the ways the loop ends, with lines 207-212 taken
\* as one step that delivers a batch.
UpdNext ==
    \/ Callout
    \/ UpdLoad
    \/ UpdOpenViews
    \/ UpdWriteRow
    \/ UpdOpenTotal
    \/ UpdWriteTotal
    \/ Sleep
    \/ Interrupt
    \/ start_server_and_open_browser
    \/ InterruptAgain
    \/ Restart

UpdSpec == Init /\ [][UpdNext]_vars

\* update_allvideoviews as a function of its batch and of the two files it
\* finds: called again and again, each call running to its return.
RecInit ==
    /\ pc = "loop"
    /\ cause = "none"
    /\ clock = 0
    /\ videos_csv = NoFile
    /\ all_views_csv = NoFile
    /\ sumtotal_txt \in InitTotals
    /\ InitLocals
    /\ hook_runs = 0
    /\ hist = [InitHist EXCEPT !.pre_total = sumtotal_txt,
                               !.in_order = ~sumtotal_txt.exists]

RecNext ==
    \/ RecCall
    \/ UpdLoad
    \/ UpdOpenViews
    \/ UpdWriteRow
    \/ UpdOpenTotal
    \/ UpdWriteTotal

RecSpec == RecInit /\ [][RecNext]_vars

\* ------------------------------------------------------------------ claims
\* The ids of the rows of a table.
RowIds(f) == {r.video_id : r \in Range(DictReader(f))}

\* The ids a batch measures.
BatchIds(batch) == {batch[i].video_id : i \in 1..Len(batch)}

\* No id comes with two different counts in the batch.
SingleValued(batch) ==
    \A i, j \in 1..Len(batch) :
        batch[i].video_id = batch[j].video_id
            => batch[i].current_views = batch[j].current_views

\* C1: from no ViewRecord file and no CumulativeTotal file, once the N-th call
\* of update_allvideoviews has returned, the persisted total is the sum over
\* all N batches, measurement by measurement in batch order, of
\* max(0, current_views - previous last_views), previous being 0 for an id
\* not seen before.
C1_TotalIsSumOfIncreases ==
    (hist.in_order /\ pc = "sleep")
        => /\ sumtotal_txt.exists
           /\ int(sumtotal_txt.text).ok
           /\ int(sumtotal_txt.text).val = hist.owed

\* Two calls have returned; one id was measured four times, going up, down,
\* up and down again, and only the two rises were counted.
C1_Witness ==
    /\ hist.in_order
    /\ pc = "sleep"
    /\ clock = 2
    /\ hist.measured = 4
    /\ hist.owed = 2
    /\ \E v \in VideoIds : hist.ledger = [Unseen EXCEPT ![v] = 0]

\* C2: the total read back from the CumulativeTotal file never falls below a
\* value it held earlier, whatever the runs: runs where items lose views, runs
\* cut short by an interrupt, runs after a restart.  Stated for the states in
\* which no file is open for writing.
C2_TotalNeverDecreases ==
    pc \in {"loop", "sleep", "stopping", "exited", "crashed"}
        => LoadTotal(sumtotal_txt) >= hist.hi_total

\* C3: whatever lists discovery returns, the Catalog Store holds each video id
\* in at most one row.
C3_CatalogIdsUnique ==
    LET rows == DictReader(videos_csv)
    IN  \A i, j \in 1..Len(rows) : rows[i].video_id = rows[j].video_id => i = j

\* C4: when a call of update_allvideoviews has returned, every id that had a
\* row before the call and is not in the batch has a row with the same
\* last_views and the same last_checked, and every id that had a row has one.
C4_UntouchedRowsKept ==
    pc = "sleep"
        => \A r \in Range(DictReader(hist.pre_views)) :
               /\ r.video_id \in RowIds(all_views_csv)
               /\ r.video_id \notin BatchIds(api_callout)
                      => r \in Range(DictReader(all_views_csv))

\* A call with a batch that is not empty has returned, and a row written by
\* an earlier call, for an id the batch does not measure, is in the table.
C4_Witness ==
    /\ pc = "sleep"
    /\ api_callout # <<>>
    /\ \E r \in Range(DictReader(hist.pre_views)) :
           /\ r.video_id \notin BatchIds(api_callout)
           /\ r.last_checked < clock
           /\ r \in Range(DictReader(all_views_csv))

\* What C5 says of the second of two calls with one batch: it reports no new
\* view and leaves the total and every last_views as the first call left them.
SecondCallAddsNothing ==
    /\ total_new_views = 0
    /\ LoadTotal(sumtotal_txt) = hist.total_was
    /\ LastViews(all_views_csv) = hist.views_was

\* C5 as stated: update_allvideoviews called twice in succession with the
\* same batch; the second call adds nothing.
C5_SameBatchAddsNothing ==
    (pc = "sleep" /\ hist.again) => SecondCallAddsNothing

\* C5 as amended: the same, for a batch in which no id comes with two
\* different counts.
C5_SingleValuedBatchAddsNothing ==
    (pc = "sleep" /\ hist.again /\ SingleValued(api_callout))
        => SecondCallAddsNothing

\* The second call with a batch that measures one id twice, with one count,
\* has returned; the first call had found views.
C5_Witness ==
    /\ pc = "sleep"
    /\ hist.again
    /\ SingleValued(api_callout)
    /\ Len(api_callout) = 2
    /\ Cardinality(BatchIds(api_callout)) = 1
    /\ hist.total_was > 0

\* C6: in every state of the run loop, the states an interrupt or a failure
\* leaves included, the ids of the ViewRecord table are ids of the Catalog
\* Store (the statistics lookup answering only for ids it was asked for).
C6_ViewIdsInCatalog == RowIds(all_views_csv) \subseteq KnownIds(videos_csv)

\* An interrupt has ended the loop; the table has rows, and the catalog an id
\* the table has not.
C6_Witness ==
    /\ cause = "interrupt"
    /\ RowIds(all_views_csv) # {}
    /\ RowIds(all_views_csv) # KnownIds(videos_csv)

\* C7, the states: the hook has run at most once; it has run exactly when the
\* process has finished by the handler, which takes an interrupt; it has not
\* run while the loop runs, nor when a failure has ended the loop.
HookOnlyAfterInterrupt ==
    /\ hook_runs \in {0, 1}
    /\ hook_runs = 1 <=> pc = "exited"
    /\ hook_runs = 1 => cause = "interrupt"
    /\ pc \in RunningPcs \cup {"upd_open_views"} => hook_runs = 0
    /\ cause \in {"failure", "error"} => pc = "crashed" /\ hook_runs = 0

\* C7, the steps: an interrupt takes RUNNING, at any of its steps, to STOPPING;
\* the hook is called from STOPPING only; from STOPPING on no file changes and
\* the process does not go back to a step of the loop.
StoppingIsTerminal ==
    /\ (cause' = "interrupt" /\ cause # "interrupt")
           => pc \in RunningPcs \cup {"upd_open_views"} /\ pc' = "stopping"
    /\ hook_runs' = hook_runs + 1 => pc = "stopping" /\ cause = "interrupt"
    /\ pc = "stopping"
           => files' = files /\ pc' \in {"stopping", "exited", "crashed"}
    /\ pc = "exited" => files' = files /\ (pc' = "exited" \/ hook_runs' = 0)

\* C7: the Shutdown Hook runs once after an interrupt in RUNNING and in no
\* other case, and nothing of the loop runs once STOPPING is entered.
C7_HookOnceOnInterruptOnly == []HookOnlyAfterInterrupt /\ [][StoppingIsTerminal]_vars

\* The interrupt landed between the truncation of the total and its write,
\* and the hook has run.
C7_Witness ==
    /\ pc = "exited"
    /\ hook_runs = 1
    /\ sumtotal_txt = [exists |-> TRUE, text |-> <<>>]

\* C8, the states: after a failed request the process is dead, and the
\* ViewRecord table and the CumulativeTotal file are as the iteration found them.
FailureLeavesFiles ==
    cause = "failure"
        => /\ pc = "crashed"
           /\ all_views_csv = hist.pre_views
           /\ sumtotal_txt = hist.pre_total

\* C8, the steps: the request that fails is not made again, and ends the
\* process there and then; a dead process takes no step of the loop.
FailureIsFatal ==
    /\ (cause' = "failure" /\ cause # "failure")
           => pc \in RequestPcs /\ pc' = "crashed" /\ files' = files
    /\ pc = "crashed"
           => files' = files /\ (pc' = "crashed" \/ (pc' = "loop" /\ cause' = "none"))

\* C8: a failed upstream request is not retried, ends the iteration and the
\* loop, and leaves the ViewRecord table and the CumulativeTotal file as they
\* were before the iteration.
C8_FailureIsFatalAndLeavesFiles == []FailureLeavesFiles /\ [][FailureIsFatal]_vars

\* A request has failed in an iteration that found a table with a row and a
\* total above 0.
C8_Witness ==
    /\ cause = "failure"
    /\ DictReader(all_views_csv) # <<>>
    /\ LoadTotal(sumtotal_txt) > 0

\* C9: a call that starts with the CumulativeTotal file missing, or holding
\* anything but an integer, does not fail; it returns, and the total it
\* persists is the new views of that call.
C9_BadTotalCountsAsZero ==
    hist.pre_total \in BadTotals
        => /\ pc # "crashed"
           /\ pc = "sleep"
                  => /\ sumtotal_txt = [exists |-> TRUE, text |-> str(total_new_views)]
                     /\ total_new_views = Owed(LastViews(hist.pre_views), api_callout, 1)

\* A call that found "1.5" in the file has returned, having found new views.
C9_Witness ==
    /\ pc = "sleep"
    /\ hist.pre_total = [exists |-> TRUE, text |-> <<"1", ".", "5">>]
    /\ total_new_views > 0

\* C10, the states: while the table is being written the total is as the run
\* found it; once the total is opened the table holds the new counts; so the
\* total is never ahead of the table.  And a call that returns has added to
\* the total it found the increases over the table it found, no more.
TableBeforeTotal ==
    /\ pc \in {"upd_open_views", "upd_rows", "upd_open_total"}
           => sumtotal_txt = hist.pre_total
    /\ pc \in {"upd_open_total", "upd_write_total", "sleep"}
           => LoadExisting(all_views_csv) = existing
    /\ (pc \in {"upd_open_views", "upd_rows", "upd_open_total",
                "upd_write_total", "sleep"}
            /\ sumtotal_txt # hist.pre_total)
           => LoadExisting(all_views_csv) = existing
    /\ pc = "sleep"
           => LoadTotal(sumtotal_txt)
                  = LoadTotal(hist.pre_total)
                        + Owed(LastViews(hist.pre_views), api_callout, 1)

\* C10, the steps: an interrupt between the two writes leaves both files as
\* they are, the table new and the total old.
AbandonedBetweenWrites ==
    (pc = "upd_open_total" /\ pc' = "stopping")
        => /\ all_views_csv' = all_views_csv
           /\ sumtotal_txt' = sumtotal_txt
           /\ LoadExisting(all_views_csv') = existing
           /\ sumtotal_txt' = hist.pre_total

\* C10: the table is rewritten before the total; a run abandoned between the
\* two leaves the table at the new counts and the total at its old value; the
\* total is never ahead of the table; and what such a run found is not added
\* by a later run.
C10_TableFirstAndNoCatchUp == []TableBeforeTotal /\ [][AbandonedBetweenWrites]_vars

\* A run that found new views was abandoned between its two writes, and a
\* later run has returned: the table holds a count above 0 and the total is 0.
C10_Witness ==
    /\ hist.stranded
    /\ pc = "sleep"
    /\ api_callout # <<>>
    /\ LoadTotal(sumtotal_txt) = 0
    /\ \E v \in VideoIds : LastViews(all_views_csv)[v] > 0
====
